---- MODULE Spec2Model ----
(***************************************************************************)
(* PokerSettle: the settlement engine (calculateSettlements), the report   *)
(* generator (generateMarkdownReport) and the page state machine (Home).   *)
(*                                                                         *)
(* Money is counted in whole pence (1 = 0.01 pounds); every amount typed   *)
(* into the page is a whole number of pence.  Number(x.toFixed(2)) is the  *)
(* operator toFixed2: it rounds a rational number of pence to the nearest  *)
(* penny.  When the exact value lies half-way between two pence the        *)
(* floating-point value the program holds lies on either side of it, and   *)
(* the direction is an input of the run (roundUp).  Sums and differences   *)
(* of amounts are taken exactly: the floating-point error of a total, of   *)
(* the order of 1e-17, is not represented.                                 *)
(***************************************************************************)
EXTENDS Integers, Sequences, FiniteSets

VARIABLES
    players,            \* Home: useState<Player[]>
    imbalanceThreshold, \* Home: useState imbalanceThreshold, in pence
    newPlayerName,      \* Home: useState newPlayerName
    settlements,        \* Home: useState<Settlement[]>, the stored list
    clock,              \* the next value of Date.now()
    lastOp,             \* history: the handler that ran last
    hadSettlements,     \* history: the stored list was non-empty before it
    pc,                 \* position of a calculateSettlements / report run
    roundUp,            \* input: players whose half-penny rounds upwards
    adjustedPlayers,    \* calculateSettlements: local adjustedPlayers
    balances,           \* calculateSettlements: local balances
    out,                \* calculateSettlements: local settlements
    iter,               \* number of iterations of the while loop so far
    report              \* the value returned by generateMarkdownReport

vars == << players, imbalanceThreshold, newPlayerName, settlements, clock,
           lastOp, hadSettlements, pc, roundUp, adjustedPlayers, balances,
           out, iter, report >>

pageVars == << newPlayerName, settlements, clock, lastOp, hadSettlements >>
runVars == << pc, roundUp, adjustedPlayers, balances, out, iter, report >>

----------------------------------------------------------------------------
(* Bounds *)

MaxPlayers == 5         \* longest player list a run is started with
MaxIter == 8            \* loop iterations followed before a run is cut off
MaxPagePlayers == 3     \* longest player list built on the page
MaxClock == 4           \* number of Date.now() values handed out

(* Program constants, in pence *)

Cent == 1               \* the literal 0.01
DefaultThreshold == 100 \* the default threshold 1

(* (buyIn, cashOut) pairs of the players a run is started with *)
Ledgers == { <<0, 0>>, <<2, 0>>, <<4, 0>>, <<5, 0>>, <<0, 2>>, <<0, 5>> }
Thresholds == { 0, DefaultThreshold }

(* Example 3 of the specification: A(100, 0), B(100, 0), C(0, 210) *)
Example3 == << [id |-> 1, name |-> <<"A">>, buyIn |-> 10000, cashOut |-> 0],
               [id |-> 2, name |-> <<"B">>, buyIn |-> 10000, cashOut |-> 0],
               [id |-> 3, name |-> <<"C">>, buyIn |-> 0, cashOut |-> 21000] >>
Example3Thresholds == { DefaultThreshold, 1000 }

(* values typed into the page *)
PageAmounts == { 0, 100 }
PageThresholds == { 0, DefaultThreshold }
NameInputs == { <<>>, <<" ">>, <<" ", "A", " ">> }

----------------------------------------------------------------------------
(* Arithmetic *)

Abs(x) == IF x < 0 THEN -x ELSE x

Min(a, b) == IF a < b THEN a ELSE b

toFixed2Floor(num, den, up) == num \div den

(* Number((num/den).toFixed(2)) in pence: the nearest penny; up decides an
   exact half *)
toFixed2(num, den, up) ==
    LET q == num \div den
        r == num % den
    IN  IF 2 * r < den THEN q
        ELSE IF 2 * r > den THEN q + 1
        ELSE IF up THEN q + 1 ELSE q

RECURSIVE SumBuyIns(_)
SumBuyIns(ps) ==
    IF Len(ps) = 0 THEN 0
    ELSE SumBuyIns(SubSeq(ps, 1, Len(ps) - 1)) + ps[Len(ps)].buyIn

RECURSIVE SumCashOuts(_)
SumCashOuts(ps) ==
    IF Len(ps) = 0 THEN 0
    ELSE SumCashOuts(SubSeq(ps, 1, Len(ps) - 1)) + ps[Len(ps)].cashOut

calculateTotals(ps) ==
    [totalBuyIns |-> SumBuyIns(ps), totalCashOuts |-> SumCashOuts(ps)]

Imbalance(ps) ==
    LET t == calculateTotals(ps) IN t.totalCashOuts - t.totalBuyIns

----------------------------------------------------------------------------
(* calculateSettlements *)

OverThresholdNoAbs(ps, threshold) == Imbalance(ps) > threshold

(* line 36: Math.abs(imbalance) > imbalanceThreshold *)
OverThreshold(ps, threshold) == Abs(Imbalance(ps)) > threshold

(* the exact value cashOut - imbalance/n lies half-way between two pence *)
IsHalf(ps) ==
    /\ Len(ps) > 0
    /\ (2 * Imbalance(ps)) % Len(ps) = 0
    /\ ((2 * Imbalance(ps)) \div Len(ps)) % 2 = 1

RoundChoices(ps) ==
    IF IsHalf(ps) THEN SUBSET (1 .. Len(ps)) ELSE { {} }

(* lines 40-47: the imbalance is spread equally over the cash-outs *)
AdjustPlayers(ps, threshold, up) ==
    IF Abs(Imbalance(ps)) <= threshold /\ Len(ps) > 0
    THEN [i \in 1 .. Len(ps) |->
            [ps[i] EXCEPT !.cashOut =
                toFixed2(ps[i].cashOut * Len(ps) - Imbalance(ps), Len(ps),
                         i \in up)]]
    ELSE ps

IsUnsettledFromOneCent(p) == Abs(p.balance) >= Cent

(* lines 55 and 78: Math.abs(p.balance) > 0.01 *)
IsUnsettled(p) == Abs(p.balance) > Cent

(* lines 49-55 *)
InitialBalances(adjusted) ==
    SelectSeq([i \in 1 .. Len(adjusted) |->
                  [id |-> adjusted[i].id, name |-> adjusted[i].name,
                   balance |-> toFixed2(adjusted[i].cashOut
                                          - adjusted[i].buyIn, 1, TRUE)]],
              IsUnsettled)

(* number of leading entries of a descending list that do not sort after x *)
RECURSIVE KeepBefore(_, _)
KeepBefore(sorted, x) ==
    IF Len(sorted) = 0 \/ Abs(sorted[1].balance) < Abs(x.balance) THEN 0
    ELSE 1 + KeepBefore(Tail(sorted), x)

InsertByAbs(sorted, x) ==
    LET k == KeepBefore(sorted, x)
    IN  SubSeq(sorted, 1, k) \o <<x>> \o SubSeq(sorted, k + 1, Len(sorted))

(* line 60: stable sort by descending magnitude *)
RECURSIVE SortByAbs(_)
SortByAbs(bals) ==
    IF Len(bals) = 0 THEN <<>>
    ELSE InsertByAbs(SortByAbs(SubSeq(bals, 1, Len(bals) - 1)),
                     bals[Len(bals)])

(* line 62 *)
DebtorIndex(sorted) == IF sorted[1].balance < 0 THEN 1 ELSE 2

(* line 63 *)
CreditorIndex(sorted) == IF sorted[1].balance > 0 THEN 1 ELSE 2

(* lines 60-78: one iteration of the while loop *)
Iterate(bals) ==
    LET sorted == SortByAbs(bals)
        di == DebtorIndex(sorted)
        ci == CreditorIndex(sorted)
        debtor == sorted[di]
        creditor == sorted[ci]
        amount == Min(Abs(debtor.balance), creditor.balance)
        emitted == IF amount > 0
                   THEN << [from |-> debtor.id, to |-> creditor.id,
                            amount |-> toFixed2(amount, 1, TRUE)] >>
                   ELSE <<>>
        afterDebtor == [sorted EXCEPT ![di].balance =
                            toFixed2(@ + amount, 1, TRUE)]
        afterBoth == [afterDebtor EXCEPT ![ci].balance =
                            toFixed2(@ - amount, 1, TRUE)]
    IN  [balances |-> SelectSeq(afterBoth, IsUnsettled), emitted |-> emitted]

RECURSIVE RunLoop(_, _, _)
RunLoop(bals, acc, fuel) ==
    IF Len(bals) <= 1 THEN [done |-> TRUE, settlements |-> acc]
    ELSE IF fuel = 0 THEN [done |-> FALSE, settlements |-> acc]
    ELSE LET r == Iterate(bals)
         IN  RunLoop(r.balances, acc \o r.emitted, fuel - 1)

(* lines 31-82; done is FALSE when the loop is still running after MaxIter
   iterations *)
calculateSettlements(ps, threshold, up) ==
    IF OverThreshold(ps, threshold)
    THEN [done |-> TRUE, settlements |-> <<>>]
    ELSE RunLoop(InitialBalances(AdjustPlayers(ps, threshold, up)), <<>>,
                 MaxIter)

----------------------------------------------------------------------------
(* generateMarkdownReport *)

(* formatGBP: sign, pounds and two-digit pence of an amount *)
formatGBP(amount) ==
    [negative |-> amount < 0,
     pounds |-> Abs(amount) \div 100,
     pence |-> Abs(amount) % 100]

RECURSIVE FindName(_, _)
FindName(ps, id) ==
    IF Len(ps) = 0 THEN <<"undefined">>
    ELSE IF ps[1].id = id THEN ps[1].name
    ELSE FindName(Tail(ps), id)

IsBalancedOrCent(difference) == Abs(difference) <= Cent

(* line 98 *)
IsBalanced(difference) == Abs(difference) < Cent

(* lines 102-115 *)
ImbalanceMessages(difference, threshold) ==
    IF ~IsBalanced(difference)
    THEN IF Abs(difference) <= threshold
         THEN << [kind |-> "small imbalance within threshold",
                  amount |-> formatGBP(Abs(difference))] >>
         ELSE IF difference > 0
         THEN << [kind |-> "cash-outs exceed buy-ins",
                  amount |-> formatGBP(difference)] >>
         ELSE << [kind |-> "buy-ins exceed cash-outs",
                  amount |-> formatGBP(Abs(difference))] >>
    ELSE <<>>

(* lines 94-146, given the list returned by the call on line 96 *)
generateMarkdownReport(ps, threshold, computed) ==
    LET totals == calculateTotals(ps)
        difference == totals.totalCashOuts - totals.totalBuyIns
        imbalanceMessages == ImbalanceMessages(difference, threshold)
    IN  [playerResults |->
            [i \in 1 .. Len(ps) |->
                [name |-> ps[i].name,
                 buyIn |-> formatGBP(ps[i].buyIn),
                 cashOut |-> formatGBP(ps[i].cashOut),
                 net |-> formatGBP(ps[i].cashOut - ps[i].buyIn)]],
         totalBuyIns |-> formatGBP(totals.totalBuyIns),
         totalCashOuts |-> formatGBP(totals.totalCashOuts),
         headings |->
            <<"Player Results">>
            \o (IF Len(imbalanceMessages) > 0
                THEN <<"Game Imbalance">> ELSE <<>>)
            \o <<"Settlements Required">>,
         imbalance |-> imbalanceMessages,
         settlementsList |->
            [i \in 1 .. Len(computed) |->
                [from |-> FindName(ps, computed[i].from),
                 to |-> FindName(ps, computed[i].to),
                 amount |-> formatGBP(computed[i].amount)]]]

NoReport ==
    [playerResults |-> <<>>, totalBuyIns |-> formatGBP(0),
     totalCashOuts |-> formatGBP(0), headings |-> <<>>, imbalance |-> <<>>,
     settlementsList |-> <<>>]

----------------------------------------------------------------------------
(* A run of calculateSettlements followed by the rest of the report, from   *)
(* an arbitrary bounded input.                                              *)

PlayerList(n, f) ==
    [i \in 1 .. n |->
        [id |-> i, name |-> <<"P">>, buyIn |-> f[i][1], cashOut |-> f[i][2]]]

PageIdle ==
    /\ newPlayerName = <<>>
    /\ settlements = <<>>
    /\ clock = 1
    /\ lastOp = "none"
    /\ hadSettlements = FALSE

Init ==
    /\ \/ /\ \E n \in 0 .. MaxPlayers :
                \E f \in [1 .. n -> Ledgers] : players = PlayerList(n, f)
          /\ imbalanceThreshold \in Thresholds
       \/ /\ players = Example3
          /\ imbalanceThreshold \in Example3Thresholds
    /\ roundUp \in RoundChoices(players)
    /\ PageIdle
    /\ pc = "call"
    /\ adjustedPlayers = <<>>
    /\ balances = <<>>
    /\ out = <<>>
    /\ iter = 0
    /\ report = NoReport

(* lines 32-38: the imbalance exceeds the threshold *)
ReturnOverThreshold ==
    /\ pc = "call"
    /\ OverThreshold(players, imbalanceThreshold)
    /\ pc' = "returned"
    /\ UNCHANGED << players, imbalanceThreshold, pageVars, roundUp,
                    adjustedPlayers, balances, out, iter, report >>

(* lines 32-57: the adjustment and the initial balances *)
StartMatching ==
    /\ pc = "call"
    /\ ~OverThreshold(players, imbalanceThreshold)
    /\ adjustedPlayers' = AdjustPlayers(players, imbalanceThreshold, roundUp)
    /\ balances' = InitialBalances(adjustedPlayers')
    /\ out' = <<>>
    /\ pc' = "loop"
    /\ UNCHANGED << players, imbalanceThreshold, pageVars, roundUp, iter,
                    report >>

(* lines 59-79: one iteration *)
LoopStep ==
    /\ pc = "loop"
    /\ Len(balances) > 1
    /\ iter < MaxIter
    /\ LET r == Iterate(balances)
       IN  /\ balances' = r.balances
           /\ out' = out \o r.emitted
    /\ iter' = iter + 1
    /\ UNCHANGED << players, imbalanceThreshold, pageVars, pc, roundUp,
                    adjustedPlayers, report >>

(* lines 59 and 81: the loop ends and the list is returned *)
Return ==
    /\ pc = "loop"
    /\ Len(balances) <= 1
    /\ pc' = "returned"
    /\ UNCHANGED << players, imbalanceThreshold, pageVars, roundUp,
                    adjustedPlayers, balances, out, iter, report >>

(* lines 95-145, after the call on line 96 has returned *)
GenerateReport ==
    /\ pc = "returned"
    /\ report' = generateMarkdownReport(players, imbalanceThreshold, out)
    /\ pc' = "reported"
    /\ UNCHANGED << players, imbalanceThreshold, pageVars, roundUp,
                    adjustedPlayers, balances, out, iter >>

Next ==
    \/ ReturnOverThreshold
    \/ StartMatching
    \/ LoopStep
    \/ Return
    \/ GenerateReport

Spec == Init /\ [][Next]_vars

----------------------------------------------------------------------------
(* The page: Home.  Every handler runs to completion; the component is then *)
(* rendered again, and with at least one player the render evaluates        *)
(* generateMarkdownReport, hence calculateSettlements, on the new state.    *)
(* The copies of the state kept in localStorage are not modelled.           *)

RECURSIVE TrimStart(_)
TrimStart(s) ==
    IF Len(s) > 0 /\ s[1] = " " THEN TrimStart(Tail(s)) ELSE s

RECURSIVE TrimEnd(_)
TrimEnd(s) ==
    IF Len(s) > 0 /\ s[Len(s)] = " "
    THEN TrimEnd(SubSeq(s, 1, Len(s) - 1)) ELSE s

(* String.prototype.trim *)
Trim(s) == TrimEnd(TrimStart(s))

RunIdle ==
    /\ pc = "idle"
    /\ roundUp = {}
    /\ adjustedPlayers = <<>>
    /\ balances = <<>>
    /\ out = <<>>
    /\ iter = 0
    /\ report = NoReport

(* lines 158-181 and 251, with nothing saved in localStorage *)
PageInit ==
    /\ players = <<>>
    /\ imbalanceThreshold = DefaultThreshold
    /\ PageIdle
    /\ RunIdle

(* the render of the current state returns: the page takes further events *)
Responsive ==
    /\ pc = "idle"
    /\ Len(players) > 0 =>
          \E up \in RoundChoices(players) :
              calculateSettlements(players, imbalanceThreshold, up).done

(* line 305 *)
setNewPlayerName(value) ==
    /\ Responsive
    /\ newPlayerName' = value
    /\ lastOp' = "setNewPlayerName"
    /\ hadSettlements' = (settlements # <<>>)
    /\ UNCHANGED << players, imbalanceThreshold, settlements, clock, runVars >>

(* lines 183-196 *)
addPlayer ==
    /\ Responsive
    /\ Trim(newPlayerName) # <<>>
    /\ Len(players) < MaxPagePlayers
    /\ clock <= MaxClock
    /\ settlements' = <<>>
    /\ players' = Append(players, [id |-> clock, name |-> Trim(newPlayerName),
                                   buyIn |-> 0, cashOut |-> 0])
    /\ newPlayerName' = <<>>
    /\ clock' = clock + 1
    /\ lastOp' = "addPlayer"
    /\ hadSettlements' = (settlements # <<>>)
    /\ UNCHANGED << imbalanceThreshold, runVars >>

removePlayerKeepsSettlements(id) ==
    /\ Responsive
    /\ \E i \in 1 .. Len(players) : players[i].id = id
    /\ players' = SelectSeq(players, LAMBDA p : p.id # id)
    /\ lastOp' = "removePlayer"
    /\ hadSettlements' = (settlements # <<>>)
    /\ UNCHANGED << imbalanceThreshold, newPlayerName, settlements, clock,
                    runVars >>

(* lines 205-208 *)
removePlayer(id) ==
    /\ Responsive
    /\ \E i \in 1 .. Len(players) : players[i].id = id
    /\ settlements' = <<>>
    /\ players' = SelectSeq(players, LAMBDA p : p.id # id)
    /\ lastOp' = "removePlayer"
    /\ hadSettlements' = (settlements # <<>>)
    /\ UNCHANGED << imbalanceThreshold, newPlayerName, clock, runVars >>

(* lines 210-215 *)
updatePlayerAmount(id, field, value) ==
    /\ Responsive
    /\ \E i \in 1 .. Len(players) : players[i].id = id
    /\ settlements' = <<>>
    /\ players' = [i \in 1 .. Len(players) |->
                      IF players[i].id = id
                      THEN IF field = "buyIn"
                           THEN [players[i] EXCEPT !.buyIn = value]
                           ELSE [players[i] EXCEPT !.cashOut = value]
                      ELSE players[i]]
    /\ lastOp' = "updatePlayerAmount"
    /\ hadSettlements' = (settlements # <<>>)
    /\ UNCHANGED << imbalanceThreshold, newPlayerName, clock, runVars >>

(* line 335 *)
setImbalanceThreshold(value) ==
    /\ Responsive
    /\ imbalanceThreshold' = value
    /\ lastOp' = "setImbalanceThreshold"
    /\ hadSettlements' = (settlements # <<>>)
    /\ UNCHANGED << players, newPlayerName, settlements, clock, runVars >>

(* lines 246-248 *)
hasGameState == Len(players) > 0 \/ imbalanceThreshold # DefaultThreshold

(* lines 237-244; the button is rendered when hasGameState() *)
resetGame(confirmed) ==
    /\ Responsive
    /\ hasGameState
    /\ IF confirmed
       THEN /\ players' = <<>>
            /\ imbalanceThreshold' = DefaultThreshold
       ELSE UNCHANGED << players, imbalanceThreshold >>
    /\ lastOp' = "resetGame"
    /\ hadSettlements' = (settlements # <<>>)
    /\ UNCHANGED << newPlayerName, settlements, clock, runVars >>

(* lines 254-257; the button is rendered when players.length > 0 *)
handleCalculateSettlements ==
    /\ Responsive
    /\ Len(players) > 0
    /\ \E up \in RoundChoices(players) :
          LET newSettlements ==
                  calculateSettlements(players, imbalanceThreshold, up)
          IN  /\ newSettlements.done
              /\ settlements' = newSettlements.settlements
    /\ lastOp' = "handleCalculateSettlements"
    /\ hadSettlements' = (settlements # <<>>)
    /\ UNCHANGED << players, imbalanceThreshold, newPlayerName, clock,
                    runVars >>

PageNext ==
    \/ \E value \in NameInputs : setNewPlayerName(value)
    \/ addPlayer
    \/ \E i \in 1 .. Len(players) : removePlayer(players[i].id)
    \/ \E i \in 1 .. Len(players) :
          \E field \in {"buyIn", "cashOut"} :
             \E value \in PageAmounts :
                updatePlayerAmount(players[i].id, field, value)
    \/ \E value \in PageThresholds : setImbalanceThreshold(value)
    \/ \E confirmed \in BOOLEAN : resetGame(confirmed)
    \/ handleCalculateSettlements

PageSpec == PageInit /\ [][PageNext]_vars

----------------------------------------------------------------------------
(* Quantities the properties of a run speak about *)

Max(a, b) == IF a > b THEN a ELSE b

RECURSIVE PaidBy(_, _)
PaidBy(id, ts) ==
    IF Len(ts) = 0 THEN 0
    ELSE (IF ts[1].from = id THEN ts[1].amount ELSE 0) + PaidBy(id, Tail(ts))

RECURSIVE ReceivedBy(_, _)
ReceivedBy(id, ts) ==
    IF Len(ts) = 0 THEN 0
    ELSE (IF ts[1].to = id THEN ts[1].amount ELSE 0) + ReceivedBy(id, Tail(ts))

Net(p) == p.cashOut - p.buyIn

PlayerCount == Len(players)

Returned == pc \in {"returned", "reported"}

Matching == pc = "loop" \/ (Returned /\ Len(adjustedPlayers) = PlayerCount)

IsExample3 == players = Example3

----------------------------------------------------------------------------
(* C1: when total buy-ins equal total cash-outs, the returned transfers
   settle the ledger exactly: for every player, (cashOut - buyIn) plus what
   the player pays minus what the player receives is zero. *)
C1_SettlesExactly ==
    (Returned /\ Imbalance(players) = 0) =>
        \A i \in 1 .. PlayerCount :
            Net(players[i]) + PaidBy(players[i].id, out)
                - ReceivedBy(players[i].id, out) = 0

(* C2: when |total cash-outs - total buy-ins| is strictly greater than the
   threshold, no transfer is ever emitted and the returned list is empty. *)
C2_OverThresholdEmpty ==
    Abs(Imbalance(players)) > imbalanceThreshold =>
        /\ out = <<>>
        /\ pc # "loop"
        /\ pc = "reported" => report.settlementsList = <<>>

C2_Witness ==
    /\ pc = "reported"
    /\ Abs(Imbalance(players)) > imbalanceThreshold
    /\ Imbalance(players) < 0
    /\ \E i, j \in 1 .. PlayerCount :
            Net(players[i]) > Cent /\ Net(players[j]) < -Cent
    /\ out = <<>>

(* C3: at every point of a run and in its result, what a player has paid
   never exceeds the player's adjusted deficit and what a player has
   received never exceeds the player's adjusted surplus. *)
C3_WithinDeficitAndSurplus ==
    Matching =>
        \A i \in 1 .. PlayerCount :
            /\ PaidBy(players[i].id, out)
                  <= Max(0, -Net(adjustedPlayers[i]))
            /\ ReceivedBy(players[i].id, out)
                  <= Max(0, Net(adjustedPlayers[i]))

(* C4: the number of returned transfers is at most playerCount - 1, and
   zero for an empty list. *)
C4_AtMostPlayersMinusOne ==
    Returned => Len(out) <= Max(0, PlayerCount - 1)

(* C5: the loop runs at most playerCount iterations, because every
   iteration removes at least one balance from the unsettled balances. *)
C5_EveryIterationRemovesOne ==
    [][(pc = "loop" /\ iter' = iter + 1) =>
            /\ Len(balances') < Len(balances)
            /\ iter' <= PlayerCount]_vars

(* C6 as stated: for A(100, 0), B(100, 0), C(0, 210) and threshold 1 the run
   subtracts 3.33 from each cash-out and returns exactly two transfers that
   leave every adjusted balance within one penny of zero. *)
C6_Example3AtThresholdOne ==
    (IsExample3 /\ imbalanceThreshold = DefaultThreshold /\ Returned) =>
        /\ Len(adjustedPlayers) = 3
        /\ \A i \in 1 .. 3 :
              adjustedPlayers[i].cashOut = players[i].cashOut - 333
        /\ Len(out) = 2
        /\ \A i \in 1 .. 3 :
              Abs(Net(adjustedPlayers[i]) + PaidBy(players[i].id, out)
                    - ReceivedBy(players[i].id, out)) <= Cent

(* C6 amended: for A(100, 0), B(100, 0), C(0, 210) the imbalance of 10
   exceeds threshold 1 and the returned list is empty; with a threshold of
   at least 10 the run subtracts 3.33 from each cash-out and returns exactly
   two transfers that leave every adjusted balance within one penny of
   zero. *)
C6_Example3 ==
    (IsExample3 /\ Returned) =>
        /\ imbalanceThreshold < 1000 => out = <<>>
        /\ imbalanceThreshold >= 1000 =>
              /\ Len(adjustedPlayers) = 3
              /\ \A i \in 1 .. 3 :
                    adjustedPlayers[i].cashOut = players[i].cashOut - 333
              /\ Len(out) = 2
              /\ \A i \in 1 .. 3 :
                    Abs(Net(adjustedPlayers[i])
                          + PaidBy(players[i].id, out)
                          - ReceivedBy(players[i].id, out)) <= Cent

C6_Witness ==
    /\ IsExample3
    /\ imbalanceThreshold = 1000
    /\ pc = "returned"
    /\ out = << [from |-> 1, to |-> 3, amount |-> 10333],
                [from |-> 2, to |-> 3, amount |-> 10333] >>

HasImbalanceSection ==
    \E k \in 1 .. Len(report.headings) : report.headings[k] = "Game Imbalance"

(* C7 as stated: the report has the 'Game Imbalance' section only when the
   absolute unadjusted difference strictly exceeds 0.01; for a difference of
   exactly 0.01 or less it is absent. *)
C7_SectionOnlyAboveOneCent ==
    pc = "reported" =>
        (HasImbalanceSection <=> Abs(Imbalance(players)) > Cent)

(* C7 amended: the report has the 'Game Imbalance' section exactly when the
   absolute unadjusted difference is not strictly less than 0.01; a
   difference of exactly 0.01 shows the section, with one message. *)
C7_SectionFromOneCent ==
    pc = "reported" =>
        /\ HasImbalanceSection <=> Abs(Imbalance(players)) >= Cent
        /\ HasImbalanceSection <=> Len(report.imbalance) = 1

C7_Witness ==
    /\ pc = "reported"
    /\ Abs(Imbalance(players)) = Cent
    /\ HasImbalanceSection

(* C9: at every iteration the two largest-magnitude remaining balances have
   opposite signs: the selected debtor's balance is strictly negative and
   the selected creditor's strictly positive. *)
C9_TopTwoOppositeSigns ==
    (pc = "loop" /\ Len(balances) > 1) =>
        LET sorted == SortByAbs(balances)
        IN  /\ sorted[DebtorIndex(sorted)].balance < 0
            /\ sorted[CreditorIndex(sorted)].balance > 0

----------------------------------------------------------------------------
(* Properties of the page *)

Mutations == {"addPlayer", "removePlayer", "updatePlayerAmount"}

(* C8: every player-list mutation that takes effect (addPlayer with a
   non-blank name, removePlayer, updatePlayerAmount) leaves the stored
   settlement list empty, and the list stays empty until the next
   handleCalculateSettlements. *)
C8_MutationClearsSettlements ==
    /\ [](lastOp \in Mutations => settlements = <<>>)
    /\ [][(settlements = <<>> /\ settlements' # <<>>) =>
              lastOp' = "handleCalculateSettlements"]_vars

C8_Witness ==
    /\ lastOp = "removePlayer"
    /\ hadSettlements
    /\ settlements = <<>>
    /\ Len(players) > 0

(* C10: after any sequence of page operations the stored settlement list
   shown in the Settlements card is either empty or equal to
   calculateSettlements(current players, current threshold), the list the
   Markdown report rendered from the same state shows. *)
C10_StoredListIsCurrent ==
    (pc = "idle" /\ Len(players) > 0) =>
        \/ settlements = <<>>
        \/ \E up \in RoundChoices(players) :
              LET current ==
                      calculateSettlements(players, imbalanceThreshold, up)
              IN  current.done /\ settlements = current.settlements

----------------------------------------------------------------------------
(* C11: for a player list with unique ids, every transfer emitted by a run
   has a payer different from its payee and an amount strictly greater than
   0.01 (at least two pence); no zero, negative or one-penny transfer is
   ever emitted. *)
C11_TransfersDistinctAndAboveOneCent ==
    (\A i, j \in 1 .. PlayerCount :
         players[i].id = players[j].id => i = j) =>
        \A k \in 1 .. Len(out) :
            /\ out[k].from # out[k].to
            /\ out[k].amount > Cent

C11_Witness ==
    /\ pc = "returned"
    /\ Len(out) >= 2
    /\ \E k \in 1 .. Len(out) : out[k].amount = 2 * Cent
    /\ \E i \in 1 .. Len(adjustedPlayers) :
          Abs(Net(adjustedPlayers[i])) = Cent

====
